---- MODULE Spec2Model ----
(***************************************************************************)
(* json_dto: the JsonDto mixin (src/json_dto.py).  A mapped class derives  *)
(* to_json, from_json and get_json_schema from its annotated fields; the   *)
(* field-name -> type mapping is cached as a class attribute named after   *)
(* the class.                                                              *)
(***************************************************************************)
EXTENDS Integers, Sequences, FiniteSets, TLC

VARIABLES
    classDict,  \* class -> its own attributes (name -> cached type hints)
    last,       \* the last API call: operation, receiver, argument, result
    target,     \* the class the threads resolve (concurrent specification)
    pc,         \* thread -> position inside get_type_hints
    computed,   \* thread -> the hints it computed and is about to store
    returned,   \* thread -> what its last call returned
    calls       \* thread -> the calls it has made

vars == <<classDict, last, target, pc, computed, returned, calls>>

NumThreads == 2
MaxCalls == 2

(***************************************************************************)
(* Python type objects.  A record [k, cls, args]: k the kind of type,      *)
(* cls the class id of an Enum or JsonDto subclass, args the parameters    *)
(* of a typing generic.                                                    *)
(***************************************************************************)
Builtin(kind) == [k |-> kind, cls |-> "", args |-> <<>>]
t_str == Builtin("str")
t_int == Builtin("int")
t_bool == Builtin("bool")
t_float == Builtin("float")
t_dict == Builtin("dict")
t_list == Builtin("list")
t_datetime == Builtin("datetime")
t_bytes == Builtin("bytes")
EnumT(c) == [k |-> "enum", cls |-> c, args |-> <<>>]
DtoT(c) == [k |-> "dto", cls |-> c, args |-> <<>>]
ListT(t) == [k |-> "List", cls |-> "", args |-> <<t>>]
DictT(kt, vt) == [k |-> "Dict", cls |-> "", args |-> <<kt, vt>>]
OptionalT(t) == [k |-> "Optional", cls |-> "", args |-> <<t>>]

\* typing generics are not classes: issubclass() raises TypeError on them
IsClass(type_) == type_.k \notin {"List", "Dict", "Optional"}

is_generic_list(type_) == type_.k = "List"

is_generic_dict(type_) == type_.k = "Dict"

(***************************************************************************)
(* Python values.  Each kind keeps its payload under a field name of its   *)
(* own.                                                                    *)
(***************************************************************************)
None_ == [k |-> "None"]
MISSING == [k |-> "MISSING"]
PyInt(n) == [k |-> "int", i |-> n]
PyFloat(h) == [k |-> "float", h |-> h]          \* h: the value in hundredths
PyBool(b) == [k |-> "bool", b |-> b]
PyStr(s) == [k |-> "str", s |-> s]
PyBytes(s) == [k |-> "bytes", raw |-> s]
PyDict(d) == [k |-> "dict", d |-> d]            \* d: a function from keys
PyList(l) == [k |-> "list", l |-> l]            \* l: a sequence
Datetime(local, us, tz) == [k |-> "datetime", local |-> local, us |-> us, tz |-> tz]
EnumMember(c, name) == [k |-> "enum", cls |-> c, name |-> name]
Obj(c, f) == [k |-> "obj", cls |-> c, f |-> f]  \* f: field name -> value
Raise(exc) == [k |-> "raise", exc |-> exc]

IsRaise(v) == v.k = "raise"

EmptyDict == PyDict(<<>>)
EmptyList == PyList(<<>>)

(***************************************************************************)
(* Timestamps.  A datetime holds its wall-clock text, its microseconds and *)
(* its UTC offset ("naive" when it has no tzinfo).                         *)
(***************************************************************************)
LocalTimes == {"2020-01-01 00:00:00", "2021-06-30 12:30:59"}
Offsets == {"+0000", "+0100"}
Naive == "naive"

\* value_.strftime('%Y-%m-%d %H:%M:%S%z'): no microseconds; %z is empty for
\* a naive datetime
strftime(value_) ==
    value_.local \o (IF value_.tz = Naive THEN "" ELSE value_.tz)

\* datetime.strptime(value, '%Y-%m-%d %H:%M:%S%z'): the text must hold the
\* date, the time and the offset; anything else is a ValueError
strptime(s) ==
    IF \E lt \in LocalTimes, tz \in Offsets : lt \o tz = s
    THEN LET p == CHOOSE p \in LocalTimes \X Offsets : p[1] \o p[2] = s
         IN  Datetime(p[1], 0, p[2])
    ELSE Raise("ValueError")

(***************************************************************************)
(* The classes of the program under analysis: dataclasses deriving from    *)
(* JsonDto (those of src/tests/json_dto_test.py and a few more shapes),    *)
(* and one Enum.  Two classes are both named EventDto: api.EventDto        *)
(* derives from models.EventDto.                                           *)
(***************************************************************************)
Classes == {"SimpleDto", "PrimitiveDto", "InvalidDto", "NestedDto",
            "models.EventDto", "api.EventDto", "BlobDto"}

EnumMembers(c) == IF c = "Color" THEN {"RED", "GREEN"} ELSE {}

\* cls.__name__
ClassName(c) ==
    IF c \in {"models.EventDto", "api.EventDto"} THEN "EventDto" ELSE c

\* the mapped superclass, "JsonDto" when the class derives from it directly
Base(c) == IF c = "api.EventDto" THEN "models.EventDto" ELSE "JsonDto"

Field(name, type_, default, default_factory) ==
    [name |-> name, type |-> type_, default |-> default,
     default_factory |-> default_factory]

\* the fields a class body declares; default_factory holds what the factory
\* returns
OwnFields(c) ==
    CASE c = "SimpleDto" ->
            << Field("id", t_int, MISSING, MISSING),
               Field("name", t_str, MISSING, MISSING) >>
      [] c = "PrimitiveDto" ->
            << Field("my_int", t_int, MISSING, MISSING),
               Field("my_str", t_str, MISSING, MISSING),
               Field("my_float", t_float, MISSING, MISSING),
               Field("my_bool", t_bool, None_, MISSING),
               Field("my_dict", t_dict, None_, MISSING) >>
      [] c = "InvalidDto" ->
            << Field("kaczka", t_int, MISSING, MISSING) >>
      [] c = "NestedDto" ->
            << Field("my_list", ListT(DtoT("PrimitiveDto")), MISSING, EmptyList),
               Field("my_dict", DictT(t_str, DtoT("PrimitiveDto")), MISSING, EmptyList) >>
      [] c = "models.EventDto" ->
            << Field("when", t_datetime, MISSING, MISSING),
               Field("color", EnumT("Color"), MISSING, MISSING),
               Field("inner", DtoT("SimpleDto"), MISSING, MISSING) >>
      [] c = "api.EventDto" ->
            << Field("source", t_str, PyStr("web"), MISSING) >>
      [] c = "BlobDto" ->
            << Field("data", t_bytes, None_, MISSING),
               Field("count", OptionalT(t_int), None_, MISSING),
               Field("level", t_int, PyInt(0), MISSING) >>

\* cls.__mro__ up to JsonDto
RECURSIVE Mro(_)
Mro(c) == IF c = "JsonDto" THEN <<>> ELSE <<c>> \o Mro(Base(c))

\* dataclasses.fields(cls): the inherited fields, then the class's own
RECURSIVE fields(_)
fields(c) == IF c = "JsonDto" THEN <<>> ELSE fields(Base(c)) \o OwnFields(c)

FieldNames(c) == {fields(c)[i].name : i \in 1..Len(fields(c))}

\* cls.__annotations__ as an ordered mapping
Annotations(c) ==
    [i \in 1..Len(OwnFields(c)) |->
        [name |-> OwnFields(c)[i].name, type |-> OwnFields(c)[i].type]]

\* dict.update on an ordered mapping: a known name keeps its place
RECURSIVE DictUpdate(_, _)
DictUpdate(hints, items) ==
    IF items = <<>> THEN hints
    ELSE LET it == Head(items)
             at == {i \in 1..Len(hints) : hints[i].name = it.name}
         IN  DictUpdate(IF at = {} THEN Append(hints, it)
                        ELSE [hints EXCEPT ![CHOOSE i \in at : TRUE] = it],
                        Tail(items))

\* typing.get_type_hints(cls): the annotations of every class of the MRO,
\* from the most basic one down to cls
RECURSIVE HintsAlong(_, _)
HintsAlong(mro, i) ==
    IF i = 0 THEN <<>>
    ELSE DictUpdate(HintsAlong(mro, i - 1), Annotations(mro[Len(mro) - i + 1]))

\* a resolution that reads only the class's own __annotations__
typing_get_type_hints_own(c) == Annotations(c)

typing_get_type_hints(c) == HintsAlong(Mro(c), Len(Mro(c)))

(***************************************************************************)
(* JsonDto.get_type_hints                                                  *)
(***************************************************************************)
hints_field(c) == "_type_hints_" \o ClassName(c)

\* getattr(cls, name, None): the attribute of the first class of the MRO
\* that has it
RECURSIVE Lookup(_, _, _)
Lookup(cd, mro, name) ==
    IF mro = <<>> THEN [found |-> FALSE, val |-> <<>>]
    ELSE IF name \in DOMAIN cd[Head(mro)]
         THEN [found |-> TRUE, val |-> cd[Head(mro)][name]]
         ELSE Lookup(cd, Tail(mro), name)

getattr_cls(cd, c, name) == Lookup(cd, Mro(c), name)

setattr_cls(cd, c, name, val) ==
    [cd EXCEPT ![c] = (name :> val) @@ cd[c]]

\* the whole classmethod: [out |-> the hints returned, cd |-> the class
\* attributes afterwards]
get_type_hints(c, cd) ==
    LET cd1 == IF ~getattr_cls(cd, c, hints_field(c)).found
               THEN setattr_cls(cd, c, hints_field(c), typing_get_type_hints(c))
               ELSE cd
    IN  [out |-> getattr_cls(cd1, c, hints_field(c)).val, cd |-> cd1]

(***************************************************************************)
(* Serialization.  An operation that may fill the hints cache returns      *)
(* [out |-> its result (a value, or Raise(..) for an exception),           *)
(*  cd |-> the class attributes afterwards].                               *)
(***************************************************************************)
Ret(out, cd) == [out |-> out, cd |-> cd]

\* a set of keys as a sequence, in an order fixed per set
RECURSIVE KeysSeq(_)
KeysSeq(S) ==
    IF S = {} THEN <<>>
    ELSE LET x == CHOOSE x \in S : TRUE IN <<x>> \o KeysSeq(S \ {x})

\* `for v in value`
Iterate(value) ==
    CASE value.k = "list" -> value.l
      [] value.k = "dict" ->
            LET ks == KeysSeq(DOMAIN value.d)
            IN  [i \in 1..Len(ks) |-> PyStr(ks[i])]

Iterable(value) == value.k \in {"list", "dict"}

serialize_datetime(value_) ==
    IF value_.k = "datetime" THEN PyStr(strftime(value_))
    ELSE Raise("AttributeError")

serialize_enum(value_) ==
    IF value_.k = "enum" THEN PyStr(value_.name) ELSE Raise("AttributeError")

RECURSIVE serialize_value(_, _, _)
RECURSIVE to_json(_, _)
RECURSIVE SerializeElements(_, _, _, _, _)
RECURSIVE SerializeItems(_, _, _, _, _, _)
RECURSIVE ToJsonFields(_, _, _, _, _)

\* value_.to_json(): dispatched on the value's own class
serialize_nested(value_, cd) ==
    IF value_.k = "obj" THEN to_json(value_, cd)
    ELSE Ret(Raise("AttributeError"), cd)

\* [JsonDto.serialize_value(v, generic_type) for v in value]
SerializeElements(l, generic_type, i, acc, cd) ==
    IF i > Len(l) THEN Ret(PyList(acc), cd)
    ELSE LET r == serialize_value(l[i], generic_type, cd)
         IN  IF IsRaise(r.out) THEN r
             ELSE SerializeElements(l, generic_type, i + 1, Append(acc, r.out), r.cd)

\* {serialize_value(key, key_type): serialize_value(val, val_type) for ...};
\* the keys of the dicts analysed are str
SerializeItems(d, keys, key_type, val_type, acc, cd) ==
    IF keys = <<>> THEN Ret(PyDict(acc), cd)
    ELSE LET key == Head(keys)
             rk == serialize_value(PyStr(key), key_type, cd)
             rv == serialize_value(d[key], val_type, rk.cd)
         IN  IF IsRaise(rk.out) THEN rk
             ELSE IF IsRaise(rv.out) THEN rv
             ELSE IF rk.out.k # "str" THEN Ret(Raise("TypeError"), rv.cd)
             ELSE SerializeItems(d, Tail(keys), key_type, val_type,
                                 (rk.out.s :> rv.out) @@ acc, rv.cd)

serialize_value(value, type_, cd) ==
    IF value = None_ THEN Ret(None_, cd)
    ELSE IF type_ \in {t_str, t_int, t_bool, t_float, t_dict, t_list}
    THEN Ret(value, cd)
    ELSE IF type_ = t_datetime THEN Ret(serialize_datetime(value), cd)
    ELSE IF is_generic_list(type_)
    THEN IF Iterable(value)
         THEN SerializeElements(Iterate(value), type_.args[1], 1, <<>>, cd)
         ELSE Ret(Raise("TypeError"), cd)
    ELSE IF is_generic_dict(type_)
    THEN IF value.k = "dict"
         THEN SerializeItems(value.d, KeysSeq(DOMAIN value.d),
                             type_.args[1], type_.args[2], <<>>, cd)
         ELSE Ret(Raise("AttributeError"), cd)
    ELSE IF ~IsClass(type_) THEN Ret(Raise("TypeError"), cd)
    ELSE IF type_.k = "enum" THEN Ret(serialize_enum(value), cd)
    ELSE IF type_.k = "dto" THEN serialize_nested(value, cd)
    ELSE Ret(Raise("NotImplementedError"), cd)

\* the loop of to_json over the items of the hints: serialize_value is
\* called once for the test and once more for the entry
ToJsonFields(self, hints, i, result, cd) ==
    IF i > Len(hints) THEN Ret(PyDict(result), cd)
    ELSE LET name == hints[i].name
             type_ == hints[i].type
             value == serialize_value(self.f[name], type_, cd)
             again == serialize_value(self.f[name], type_, value.cd)
         IN  IF name \notin DOMAIN self.f THEN Ret(Raise("AttributeError"), cd)
             ELSE IF IsRaise(value.out) THEN value
             ELSE IF value.out # None_
             THEN IF IsRaise(again.out) THEN again
                  ELSE ToJsonFields(self, hints, i + 1,
                                    (name :> again.out) @@ result, again.cd)
             ELSE ToJsonFields(self, hints, i + 1, result, value.cd)

to_json(self, cd) ==
    LET h == get_type_hints(self.cls, cd)
    IN  ToJsonFields(self, h.out, 1, <<>>, h.cd)

(***************************************************************************)
(* Deserialization                                                         *)
(***************************************************************************)
\* bool(value), `if value`
Truthy(value) ==
    CASE value.k = "None" -> FALSE
      [] value.k = "int" -> value.i # 0
      [] value.k = "float" -> value.h # 0
      [] value.k = "bool" -> value.b
      [] value.k = "str" -> value.s # ""
      [] value.k = "bytes" -> value.raw # ""
      [] value.k = "dict" -> DOMAIN value.d # {}
      [] value.k = "list" -> value.l # <<>>
      [] OTHER -> TRUE

Numerals == 0..200

\* int("12")
ParseInt(s) ==
    IF \E n \in Numerals : ToString(n) = s
    THEN PyInt(CHOOSE n \in Numerals : ToString(n) = s)
    ELSE Raise("ValueError")

\* type_(value) for type_ in [str, int, bool, float, dict, list], on the
\* values the payloads analysed hold
Convert(type_, value) ==
    CASE type_ = t_str ->
            (CASE value.k = "str" -> value
               [] value.k = "int" -> PyStr(ToString(value.i))
               [] value.k = "bool" -> PyStr(IF value.b THEN "True" ELSE "False"))
      [] type_ = t_int ->
            (CASE value.k = "int" -> value
               [] value.k = "bool" -> PyInt(IF value.b THEN 1 ELSE 0)
               [] value.k = "float" -> PyInt(value.h \div 100)
               [] value.k = "str" -> ParseInt(value.s)
               [] OTHER -> Raise("TypeError"))
      [] type_ = t_float ->
            (CASE value.k = "float" -> value
               [] value.k = "int" -> PyFloat(value.i * 100)
               [] value.k = "bool" -> PyFloat(IF value.b THEN 100 ELSE 0)
               [] value.k = "str" ->
                    LET n == ParseInt(value.s)
                    IN  IF IsRaise(n) THEN n ELSE PyFloat(n.i * 100)
               [] OTHER -> Raise("TypeError"))
      [] type_ = t_bool -> PyBool(Truthy(value))
      [] type_ = t_dict ->
            (CASE value.k = "dict" -> value
               [] value.k = "list" /\ value.l = <<>> -> EmptyDict
               [] value.k = "str" /\ value.s = "" -> EmptyDict
               [] value.k = "str" /\ value.s # "" -> Raise("ValueError")
               [] OTHER -> Raise("TypeError"))
      [] type_ = t_list ->
            (CASE value.k = "list" -> value
               [] value.k = "dict" -> PyList(Iterate(value))
               [] value.k = "str" /\ value.s = "" -> EmptyList
               [] value.k \in {"int", "float", "bool", "obj", "datetime"} ->
                    Raise("TypeError"))

\* an input that is a datetime is returned; a falsy one gives None; the
\* ValueError of strptime is caught (and printed) and gives None; the
\* TypeError of strptime on a value that is no str is not caught
deserialize_datetime(value) ==
    IF value.k = "datetime" THEN value
    ELSE IF ~Truthy(value) THEN None_
    ELSE IF value.k # "str" THEN Raise("TypeError")
    ELSE LET parsed == strptime(value.s)
         IN  IF parsed = Raise("ValueError") THEN None_ ELSE parsed

\* enum_class[value]
deserialize_enum(value, enum_class) ==
    IF value.k = "str" /\ value.s \in EnumMembers(enum_class.cls)
    THEN EnumMember(enum_class.cls, value.s)
    ELSE Raise("KeyError")

\* _class(**kwargs): the __init__ a dataclass generates
Construct(c, kwargs) ==
    LET fs == fields(c)
        at(n) == fs[CHOOSE i \in 1..Len(fs) : fs[i].name = n]
    IN  IF \E n \in DOMAIN kwargs : n \notin FieldNames(c)
        THEN Raise("TypeError")
        ELSE IF \E i \in 1..Len(fs) :
                    /\ fs[i].name \notin DOMAIN kwargs
                    /\ fs[i].default = MISSING
                    /\ fs[i].default_factory = MISSING
        THEN Raise("TypeError")
        ELSE Obj(c, [n \in FieldNames(c) |->
                        IF n \in DOMAIN kwargs THEN kwargs[n]
                        ELSE IF at(n).default # MISSING THEN at(n).default
                        ELSE at(n).default_factory])

RECURSIVE deserialize(_, _, _)
RECURSIVE from_json(_, _, _)
RECURSIVE DeserializeElements(_, _, _, _, _)
RECURSIVE DeserializeItems(_, _, _, _, _, _)
RECURSIVE FromJsonFields(_, _, _, _, _)

\* nested_class.from_json(value)
deserialize_nested(value, nested_class, cd) == from_json(nested_class.cls, value, cd)

\* [deserialize(generic_type, v) for v in value]
DeserializeElements(l, generic_type, i, acc, cd) ==
    IF i > Len(l) THEN Ret(PyList(acc), cd)
    ELSE LET r == deserialize(generic_type, l[i], cd)
         IN  IF IsRaise(r.out) THEN r
             ELSE DeserializeElements(l, generic_type, i + 1, Append(acc, r.out), r.cd)

\* {deserialize(key_type, key): deserialize(val_type, val) for ...}
DeserializeItems(d, keys, key_type, val_type, acc, cd) ==
    IF keys = <<>> THEN Ret(PyDict(acc), cd)
    ELSE LET key == Head(keys)
             rk == deserialize(key_type, PyStr(key), cd)
             rv == deserialize(val_type, d[key], rk.cd)
         IN  IF IsRaise(rk.out) THEN rk
             ELSE IF IsRaise(rv.out) THEN rv
             ELSE IF rk.out.k # "str" THEN Ret(Raise("TypeError"), rv.cd)
             ELSE DeserializeItems(d, Tail(keys), key_type, val_type,
                                   (rk.out.s :> rv.out) @@ acc, rv.cd)

deserialize(type_, value, cd) ==
    IF value = None_ THEN Ret(None_, cd)
    ELSE IF type_ \in {t_str, t_int, t_bool, t_float, t_dict, t_list}
    THEN Ret(Convert(type_, value), cd)
    ELSE IF type_ = t_datetime THEN Ret(deserialize_datetime(value), cd)
    ELSE IF is_generic_list(type_)
    THEN IF Iterable(value)
         THEN DeserializeElements(Iterate(value), type_.args[1], 1, <<>>, cd)
         ELSE Ret(Raise("TypeError"), cd)
    ELSE IF is_generic_dict(type_)
    THEN IF value.k = "dict"
         THEN DeserializeItems(value.d, KeysSeq(DOMAIN value.d),
                               type_.args[1], type_.args[2], <<>>, cd)
         ELSE Ret(Raise("AttributeError"), cd)
    ELSE IF ~IsClass(type_) THEN Ret(Raise("TypeError"), cd)
    ELSE IF type_.k = "enum" THEN Ret(deserialize_enum(value, type_), cd)
    ELSE IF type_.k = "dto" THEN deserialize_nested(value, type_, cd)
    ELSE Ret(Raise("NotImplementedError"), cd)

\* `name in payload` for the payloads analysed: a dict, or a list (which
\* holds no field name)
NameIn(name, payload) ==
    CASE payload.k = "dict" -> name \in DOMAIN payload.d
      [] payload.k = "list" -> \E i \in 1..Len(payload.l) : payload.l[i] = PyStr(name)

\* the dict comprehension of from_json: the fields of the hints that are
\* keys of the payload
FromJsonFields(hints, i, kwargs, payload, cd) ==
    IF i > Len(hints) THEN Ret(PyDict(kwargs), cd)
    ELSE LET name == hints[i].name
             r == deserialize(hints[i].type, payload.d[name], cd)
         IN  IF ~NameIn(name, payload)
             THEN FromJsonFields(hints, i + 1, kwargs, payload, cd)
             ELSE IF payload.k # "dict" THEN Ret(Raise("TypeError"), cd)
             ELSE IF IsRaise(r.out) THEN r
             ELSE FromJsonFields(hints, i + 1, (name :> r.out) @@ kwargs, payload, r.cd)

from_json(c, payload, cd) ==
    LET h == get_type_hints(c, cd)
        kw == FromJsonFields(h.out, 1, <<>>, payload, h.cd)
    IN  IF IsRaise(kw.out) THEN kw
        ELSE Ret(Construct(c, kw.out.d), kw.cd)

(***************************************************************************)
(* Schema derivation                                                       *)
(***************************************************************************)
t_enum_Enum == EnumT("enum.Enum")     \* the class enum.Enum itself

TypesMapKeys == {t_int, t_float, t_str, t_bool, t_datetime, t_enum_Enum, t_list, t_dict}

types_map(type_) ==
    CASE type_ = t_int -> "integer"
      [] type_ = t_float -> "number"
      [] type_ = t_str -> "string"
      [] type_ = t_bool -> "boolean"
      [] type_ = t_datetime -> "string"
      [] type_ = t_enum_Enum -> "string"
      [] type_ = t_list -> "array"
      [] type_ = t_dict -> "object"

\* isinstance(field.type, JsonDto): field.type is a type object, and no type
\* object is an instance of JsonDto
isinstance_JsonDto(type_) == FALSE

SchemaType(name) == PyDict([type |-> PyStr(name)])

\* a stricter test: neither a default value nor a default factory
is_required_no_factory(field) ==
    field.default = MISSING /\ field.default_factory = MISSING

is_required(field) == field.default = MISSING

get_schema_required(c) ==
    LET req == SelectSeq(fields(c), is_required)
    IN  PyList([i \in 1..Len(req) |-> PyStr(req[i].name)])

RECURSIVE get_schema_properties(_)
RECURSIVE SchemaFields(_, _, _)

\* generic_type.get_schema_properties(): only a JsonDto class has the method
nested_properties(generic_type) ==
    IF generic_type.k = "dto" THEN get_schema_properties(generic_type.cls)
    ELSE Raise("AttributeError")

\* a list branch that carries the nested `required`, as the dict branch does
list_of_record_with_required(generic_type) ==
    LET props == nested_properties(generic_type)
    IN  IF IsRaise(props) THEN props
        ELSE PyDict([type |-> PyStr("array"),
                     items |-> PyDict([type |-> PyStr("object"),
                                       properties |-> props,
                                       required |-> get_schema_required(generic_type.cls)])])

list_of_record(generic_type) ==
    LET props == nested_properties(generic_type)
    IN  IF IsRaise(props) THEN props
        ELSE PyDict([type |-> PyStr("array"),
                     items |-> PyDict([type |-> PyStr("object"),
                                       properties |-> props])])

dict_of_record(generic_type) ==
    LET props == nested_properties(generic_type)
    IN  IF IsRaise(props) THEN props
        ELSE PyDict([type |-> PyStr("object"),
                     additionalProperties |->
                        PyDict([type |-> PyStr("object"),
                                properties |-> props,
                                required |-> get_schema_required(generic_type.cls)])])

\* the result for a field, None when no branch applies
get_field_type(field) ==
    IF field.type \in TypesMapKeys THEN SchemaType(types_map(field.type))
    ELSE IF isinstance_JsonDto(field.type)
    THEN LET props == get_schema_properties(field.type.cls)
         IN  IF IsRaise(props) THEN props
             ELSE PyDict([type |-> PyStr("object"), properties |-> props])
    ELSE IF is_generic_list(field.type)
    THEN LET generic_type == field.type.args[1]
         IN  IF generic_type \in TypesMapKeys
             THEN PyDict([type |-> PyStr("array"),
                          items |-> SchemaType(types_map(generic_type))])
             ELSE list_of_record(generic_type)
    ELSE IF is_generic_dict(field.type)
    THEN LET generic_type == field.type.args[2]
         IN  IF generic_type \in TypesMapKeys
             THEN PyDict([type |-> PyStr("object"),
                          additionalProperties |-> SchemaType(types_map(generic_type))])
             ELSE dict_of_record(generic_type)
    ELSE None_

\* {field.name: get_field_type(field) for field in dataclasses.fields(cls)}
SchemaFields(fs, i, acc) ==
    IF i > Len(fs) THEN PyDict(acc)
    ELSE LET ft == get_field_type(fs[i])
         IN  IF IsRaise(ft) THEN ft
             ELSE SchemaFields(fs, i + 1, (fs[i].name :> ft) @@ acc)

get_schema_properties(c) == SchemaFields(fields(c), 1, <<>>)

get_json_schema(c) ==
    LET props == get_schema_properties(c)
    IN  IF IsRaise(props) THEN props
        ELSE PyDict(("$schema" :> PyStr("http://json-schema.org/draft-04/schema#"))
                    @@ [title |-> PyStr(ClassName(c)),
                        type |-> PyStr("object"),
                        properties |-> props,
                        required |-> get_schema_required(c)])

(***************************************************************************)
(* jsonschema.validate(instance, schema) of the tests, for the draft-04    *)
(* keywords the derived schemas use.  The schema is first checked against  *)
(* the draft-04 metaschema (every subschema an object, `required` a        *)
(* non-empty array of strings), then the instance against the schema.      *)
(***************************************************************************)
RECURSIVE check_schema(_)
check_schema(s) ==
    /\ s.k = "dict"
    /\ "type" \in DOMAIN s.d => s.d["type"].k = "str"
    /\ "properties" \in DOMAIN s.d =>
            /\ s.d["properties"].k = "dict"
            /\ \A n \in DOMAIN s.d["properties"].d : check_schema(s.d["properties"].d[n])
    /\ "items" \in DOMAIN s.d => check_schema(s.d["items"])
    /\ "additionalProperties" \in DOMAIN s.d => check_schema(s.d["additionalProperties"])
    /\ "required" \in DOMAIN s.d =>
            /\ s.d["required"].k = "list"
            /\ Len(s.d["required"].l) >= 1
            /\ \A i \in 1..Len(s.d["required"].l) : s.d["required"].l[i].k = "str"

TypeMatches(instance, name) ==
    CASE name = "integer" -> instance.k = "int"
      [] name = "number" -> instance.k \in {"int", "float"}
      [] name = "string" -> instance.k = "str"
      [] name = "boolean" -> instance.k = "bool"
      [] name = "object" -> instance.k = "dict"
      [] name = "array" -> instance.k = "list"
      [] OTHER -> FALSE

RECURSIVE is_valid(_, _)
is_valid(instance, s) ==
    /\ "type" \in DOMAIN s.d => TypeMatches(instance, s.d["type"].s)
    /\ ("required" \in DOMAIN s.d /\ instance.k = "dict") =>
            \A i \in 1..Len(s.d["required"].l) :
                s.d["required"].l[i].s \in DOMAIN instance.d
    /\ ("properties" \in DOMAIN s.d /\ instance.k = "dict") =>
            \A n \in DOMAIN instance.d \cap DOMAIN s.d["properties"].d :
                is_valid(instance.d[n], s.d["properties"].d[n])
    /\ ("additionalProperties" \in DOMAIN s.d /\ instance.k = "dict") =>
            \A n \in DOMAIN instance.d :
                (~("properties" \in DOMAIN s.d /\ n \in DOMAIN s.d["properties"].d))
                    => is_valid(instance.d[n], s.d["additionalProperties"])
    /\ ("items" \in DOMAIN s.d /\ instance.k = "list") =>
            \A i \in 1..Len(instance.l) : is_valid(instance.l[i], s.d["items"])

validate(instance, schema) ==
    IF ~check_schema(schema) THEN "SchemaError"
    ELSE IF is_valid(instance, schema) THEN "valid" ELSE "ValidationError"

(***************************************************************************)
(* The inputs analysed: instances handed to to_json, payloads handed to    *)
(* from_json.                                                              *)
(***************************************************************************)
T1 == "2020-01-01 00:00:00"
T2 == "2021-06-30 12:30:59"

S1 == Obj("SimpleDto", [id |-> PyInt(1), name |-> PyStr("foo")])
S1Json == PyDict([id |-> PyInt(1), name |-> PyStr("foo")])

Primitive(i, s, f, b, d) ==
    Obj("PrimitiveDto", [my_int |-> i, my_str |-> s, my_float |-> f,
                         my_bool |-> b, my_dict |-> d])
P1 == Primitive(PyInt(123), PyStr("foo"), PyFloat(666), PyBool(TRUE),
                PyDict([a |-> PyStr("b")]))
P2 == Primitive(PyInt(1), PyStr("str"), PyFloat(311), PyBool(TRUE), EmptyDict)
P3 == Primitive(PyInt(2), PyStr("bar"), PyInt(3), None_, None_)
I1 == Obj("InvalidDto", [kaczka |-> PyInt(123)])

Nested(l, d) == Obj("NestedDto", [my_list |-> l, my_dict |-> d])

Event(when) ==
    Obj("models.EventDto",
        [when |-> when, color |-> EnumMember("Color", "RED"), inner |-> S1])
ApiEvent(when, source) ==
    Obj("api.EventDto",
        [when |-> when, color |-> EnumMember("Color", "GREEN"), inner |-> S1,
         source |-> source])
Blob(data, count, level) ==
    Obj("BlobDto", [data |-> data, count |-> count, level |-> level])

Instances ==
    << S1, P1, P3, I1,
       Nested(PyList(<<P1, P3>>), PyDict([a |-> P2])),
       Nested(PyList(<<I1>>), EmptyDict),
       Nested(EmptyList, PyDict([a |-> I1])),
       Nested(None_, EmptyDict),
       Event(Datetime(T1, 0, "+0000")),
       Event(Datetime(T2, 0, "+0100")),
       Event(Datetime(T1, 0, Naive)),
       Event(Datetime(T2, 500000, "+0100")),
       ApiEvent(Datetime(T1, 0, "+0000"), PyStr("cli")),
       Blob(PyBytes("x"), None_, PyInt(1)),
       Blob(None_, PyInt(5), PyInt(0)),
       Blob(None_, None_, PyInt(0)),
       Blob(None_, None_, None_) >>

EventJson(when) ==
    [when |-> when, color |-> PyStr("RED"), inner |-> S1Json]

\* <<class, payload>> pairs
Payloads ==
    << <<"models.EventDto", PyDict(EventJson(PyStr("")))>>,
       <<"models.EventDto", PyDict(EventJson(PyStr("garbage")))>>,
       <<"models.EventDto", PyDict(EventJson(PyStr(T1)))>>,
       <<"models.EventDto", PyDict(EventJson(Datetime(T2, 500000, Naive)))>>,
       <<"models.EventDto", PyDict(EventJson(PyStr(T1 \o "+0100")))>>,
       <<"models.EventDto", PyDict(EventJson(PyInt(5)))>>,
       <<"models.EventDto", PyDict([color |-> PyStr("RED"), inner |-> S1Json])>>,
       <<"models.EventDto",
         PyDict([when |-> PyStr(""), color |-> PyStr("BLUE"), inner |-> S1Json])>>,
       <<"api.EventDto",
         PyDict(("source" :> PyStr("cli")) @@ EventJson(PyStr("garbage")))>>,
       <<"api.EventDto", PyDict(EventJson(PyStr(T2 \o "+0000")))>>,
       <<"PrimitiveDto",
         PyDict([my_int |-> PyInt(1), my_str |-> PyStr("a"), my_float |-> PyFloat(150)])>>,
       <<"PrimitiveDto",
         PyDict([my_int |-> PyStr("12"), my_str |-> PyInt(5), my_float |-> PyInt(2),
                 my_bool |-> PyInt(0), my_dict |-> EmptyList])>>,
       <<"SimpleDto", PyDict([id |-> PyInt(1)])>>,
       <<"NestedDto", EmptyDict>>,
       <<"BlobDto", EmptyDict>>,
       <<"BlobDto", PyDict([level |-> PyInt(3)])>>,
       <<"BlobDto", PyDict([data |-> PyStr("x")])>> >>

(***************************************************************************)
(* The program as a state machine: calls of the public methods, one after  *)
(* the other.                                                              *)
(***************************************************************************)
Threads == 1..NumThreads

Call(op, c, arg, out, hints, origin) ==
    [op |-> op, cls |-> c, arg |-> arg, out |-> out, hints |-> hints,
     origin |-> origin]

NoThreads ==
    /\ target = ""
    /\ pc = [t \in Threads |-> "idle"]
    /\ computed = [t \in Threads |-> <<>>]
    /\ returned = [t \in Threads |-> <<>>]
    /\ calls = [t \in Threads |-> 0]

Init ==
    /\ classDict = [c \in Classes |-> <<>>]
    /\ last = Call("none", "", None_, None_, <<>>, None_)
    /\ NoThreads

\* cls.get_type_hints()
GetTypeHints(c) ==
    LET r == get_type_hints(c, classDict)
    IN  /\ classDict' = r.cd
        /\ last' = Call("get_type_hints", c, None_, None_, r.out, None_)
        /\ UNCHANGED <<target, pc, computed, returned, calls>>

\* x.to_json()
ToJson(x) ==
    LET r == to_json(x, classDict)
    IN  /\ classDict' = r.cd
        /\ last' = Call("to_json", x.cls, x, r.out, <<>>, None_)
        /\ UNCHANGED <<target, pc, computed, returned, calls>>

\* cls.from_json(payload)
FromJson(c, payload) ==
    LET r == from_json(c, payload, classDict)
    IN  /\ classDict' = r.cd
        /\ last' = Call("from_json", c, payload, r.out, <<>>, None_)
        /\ UNCHANGED <<target, pc, computed, returned, calls>>

\* type(x).from_json(x.to_json()), on the result of the to_json just made
RoundTrip ==
    /\ last.op = "to_json"
    /\ ~IsRaise(last.out)
    /\ LET r == from_json(last.cls, last.out, classDict)
       IN  /\ classDict' = r.cd
           /\ last' = Call("from_json", last.cls, last.out, r.out, <<>>, last.arg)
    /\ UNCHANGED <<target, pc, computed, returned, calls>>

\* cls.get_json_schema()
GetJsonSchema(c) ==
    /\ last' = Call("get_json_schema", c, None_, get_json_schema(c), <<>>, None_)
    /\ UNCHANGED <<classDict, target, pc, computed, returned, calls>>

Next ==
    \/ \E c \in Classes : GetTypeHints(c)
    \/ \E i \in 1..Len(Instances) : ToJson(Instances[i])
    \/ \E i \in 1..Len(Payloads) : FromJson(Payloads[i][1], Payloads[i][2])
    \/ RoundTrip
    \/ \E c \in Classes : GetJsonSchema(c)

Spec == Init /\ [][Next]_vars

(***************************************************************************)
(* Threads resolving the hints of one class at once, the cache empty: each *)
(* statement of get_type_hints is a step of its own.                       *)
(***************************************************************************)
InitThreads ==
    /\ classDict = [c \in Classes |-> <<>>]
    /\ last = Call("none", "", None_, None_, <<>>, None_)
    /\ target \in Classes
    /\ pc = [t \in Threads |-> "idle"]
    /\ computed = [t \in Threads |-> <<>>]
    /\ returned = [t \in Threads |-> <<>>]
    /\ calls = [t \in Threads |-> 0]

\* a thread enters get_type_hints
Enter(t) ==
    /\ pc[t] \in {"idle", "done"}
    /\ calls[t] < MaxCalls
    /\ pc' = [pc EXCEPT ![t] = "check"]
    /\ calls' = [calls EXCEPT ![t] = @ + 1]
    /\ UNCHANGED <<classDict, last, target, computed, returned>>

\* if getattr(cls, hints_field, None) is None
CheckCache(t) ==
    /\ pc[t] = "check"
    /\ pc' = [pc EXCEPT ![t] =
                IF getattr_cls(classDict, target, hints_field(target)).found
                THEN "return" ELSE "compute"]
    /\ UNCHANGED <<classDict, last, target, computed, returned, calls>>

\* the argument of setattr: get_type_hints(cls)
ComputeHints(t) ==
    /\ pc[t] = "compute"
    /\ computed' = [computed EXCEPT ![t] = typing_get_type_hints(target)]
    /\ pc' = [pc EXCEPT ![t] = "setattr"]
    /\ UNCHANGED <<classDict, last, target, returned, calls>>

\* setattr(cls, hints_field, ...)
StoreHints(t) ==
    /\ pc[t] = "setattr"
    /\ classDict' = setattr_cls(classDict, target, hints_field(target), computed[t])
    /\ pc' = [pc EXCEPT ![t] = "return"]
    /\ UNCHANGED <<last, target, computed, returned, calls>>

\* return getattr(cls, hints_field)
ReturnHints(t) ==
    /\ pc[t] = "return"
    /\ returned' = [returned EXCEPT ![t] =
                        getattr_cls(classDict, target, hints_field(target)).val]
    /\ pc' = [pc EXCEPT ![t] = "done"]
    /\ UNCHANGED <<classDict, last, target, computed, calls>>

NextThreads ==
    \E t \in Threads :
        \/ Enter(t)
        \/ CheckCache(t)
        \/ ComputeHints(t)
        \/ StoreHints(t)
        \/ ReturnHints(t)

SpecThreads == InitThreads /\ [][NextThreads]_vars

(***************************************************************************)
(* What the properties below speak of                                      *)
(***************************************************************************)
\* the field-name -> type mapping a class declares, inherited fields first
Descriptor(c) ==
    [i \in 1..Len(fields(c)) |-> [name |-> fields(c)[i].name, type |-> fields(c)[i].type]]

\* the type is one of the supported shapes, and so are the types inside it
RECURSIVE SupportedType(_)
SupportedType(type_) ==
    CASE type_.k \in {"str", "int", "bool", "float", "dict", "list", "datetime", "enum"} -> TRUE
      [] type_.k = "List" -> SupportedType(type_.args[1])
      [] type_.k = "Dict" -> SupportedType(type_.args[1]) /\ SupportedType(type_.args[2])
      [] type_.k = "dto" ->
            \A i \in 1..Len(fields(type_.cls)) : SupportedType(fields(type_.cls)[i].type)
      [] OTHER -> FALSE

\* a class all of whose fields have supported types
Mapped(c) == SupportedType(DtoT(c))

\* the value a constructor call without the field gives it
DeclaredDefault(field) ==
    IF field.default # MISSING THEN field.default ELSE field.default_factory

\* value is of the declared type; None is accepted where noneOk allows it
RECURSIVE WellTyped(_, _, _)
WellTyped(value, type_, noneOk) ==
    CASE type_.k = "int" -> value.k = "int"
      [] type_.k = "float" -> value.k \in {"float", "int"}
      [] type_.k = "str" -> value.k = "str"
      [] type_.k = "bool" -> value.k = "bool"
      [] type_.k = "dict" -> value.k = "dict"
      [] type_.k = "list" -> value.k = "list"
      [] type_.k = "datetime" -> value.k = "datetime"
      [] type_.k = "enum" ->
            value.k = "enum" /\ value.cls = type_.cls /\ value.name \in EnumMembers(type_.cls)
      [] type_.k = "List" ->
            value.k = "list"
                /\ \A i \in 1..Len(value.l) : WellTyped(value.l[i], type_.args[1], FALSE)
      [] type_.k = "Dict" ->
            value.k = "dict"
                /\ \A key \in DOMAIN value.d : WellTyped(value.d[key], type_.args[2], FALSE)
      [] type_.k = "dto" ->
            /\ value.k = "obj"
            /\ value.cls = type_.cls
            /\ \A i \in 1..Len(fields(value.cls)) :
                    LET fd == fields(value.cls)[i]
                    IN  \/ noneOk /\ value.f[fd.name] = None_ /\ fd.default = None_
                        \/ WellTyped(value.f[fd.name], fd.type, noneOk)
      [] OTHER -> FALSE

\* an instance built from the supported type shapes only
Supported(x) == WellTyped(x, DtoT(x.cls), FALSE)

\* a valid instance: as Supported, and a field declared `= None` may be None
Valid(x) == WellTyped(x, DtoT(x.cls), TRUE)

\* Python's ==.  Two aware datetimes are equal when they are the same
\* instant, which for the timestamps analysed is when they are identical.
RECURSIVE PyEq(_, _)
PyEq(a, b) ==
    LET num(v) == CASE v.k = "int" -> v.i * 100
                    [] v.k = "float" -> v.h
                    [] v.k = "bool" -> IF v.b THEN 100 ELSE 0
    IN  IF a.k \in {"int", "float", "bool"} /\ b.k \in {"int", "float", "bool"}
        THEN num(a) = num(b)
        ELSE IF a.k # b.k THEN FALSE
        ELSE CASE a.k = "obj" ->
                    /\ a.cls = b.cls
                    /\ DOMAIN a.f = DOMAIN b.f
                    /\ \A n \in DOMAIN a.f : PyEq(a.f[n], b.f[n])
               [] a.k = "list" ->
                    Len(a.l) = Len(b.l) /\ \A i \in 1..Len(a.l) : PyEq(a.l[i], b.l[i])
               [] a.k = "dict" ->
                    DOMAIN a.d = DOMAIN b.d /\ \A n \in DOMAIN a.d : PyEq(a.d[n], b.d[n])
               [] OTHER -> a = b

\* x holds, where a record of class R is declared, a record of another
\* class that lacks a field R requires
RECURSIVE Incompatible(_, _)
Incompatible(value, type_) ==
    CASE type_.k = "List" /\ value.k = "list" ->
            \E i \in 1..Len(value.l) : Incompatible(value.l[i], type_.args[1])
      [] type_.k = "Dict" /\ value.k = "dict" ->
            \E key \in DOMAIN value.d : Incompatible(value.d[key], type_.args[2])
      [] type_.k = "dto" /\ value.k = "obj" ->
            /\ value.cls # type_.cls
            /\ \E i \in 1..Len(fields(type_.cls)) :
                    /\ is_required(fields(type_.cls)[i])
                    /\ fields(type_.cls)[i].name \notin FieldNames(value.cls)
      [] OTHER -> FALSE

HasIncompatibleNested(x) ==
    \E i \in 1..Len(fields(x.cls)) :
        Incompatible(x.f[fields(x.cls)[i].name], fields(x.cls)[i].type)

IsToJson == last.op = "to_json"
IsFromJson == last.op = "from_json"
IsSchema == last.op = "get_json_schema"

(***************************************************************************)
(* C1.  Round trip: for every instance x built from the supported type     *)
(* shapes, type(x).from_json(x.to_json()) does not raise and equals x      *)
(* field for field.                                                        *)
(***************************************************************************)
C1_RoundTrip ==
    (IsFromJson /\ last.origin # None_ /\ Supported(last.origin))
        => (~IsRaise(last.out) /\ PyEq(last.out, last.origin))

(***************************************************************************)
(* C2.  Optional-field omission: a field name is a key of the result of    *)
(* to_json exactly when the field's serialized value is not None; and a    *)
(* field whose key the payload of from_json lacks holds its declared       *)
(* default in the instance built.                                          *)
(***************************************************************************)
C2_OptionalFieldOmission ==
    /\ (IsToJson /\ ~IsRaise(last.out)) =>
            \A i \in 1..Len(fields(last.cls)) :
                LET fd == fields(last.cls)[i]
                IN  (fd.name \in DOMAIN last.out.d)
                        <=> (serialize_value(last.arg.f[fd.name], fd.type, classDict).out # None_)
    /\ (IsFromJson /\ last.arg.k = "dict" /\ last.out.k = "obj") =>
            \A i \in 1..Len(fields(last.cls)) :
                LET fd == fields(last.cls)[i]
                IN  fd.name \notin DOMAIN last.arg.d
                        => last.out.f[fd.name] = DeclaredDefault(fd)

(***************************************************************************)
(* C3.  Schema consumability: the to_json of a valid instance of a mapped  *)
(* type validates against the schema of its type, and the to_json of an    *)
(* instance holding nested records of an incompatible record type fails    *)
(* validation against it.                                                  *)
(***************************************************************************)
C3_SchemaConsumable ==
    (IsToJson /\ ~IsRaise(last.out) /\ Mapped(last.cls)) =>
        LET schema == get_json_schema(last.cls)
        IN  /\ ~IsRaise(schema)
            /\ Valid(last.arg) => validate(last.out, schema) = "valid"
            /\ HasIncompatibleNested(last.arg)
                    => validate(last.out, schema) = "ValidationError"

(***************************************************************************)
(* C4.  As claimed: `required` lists exactly the fields that have no       *)
(* declared default of any kind (neither a default value nor a default     *)
(* factory), in declaration order.                                         *)
(***************************************************************************)
RequiredOf(schema) == schema.d["required"].l

NamesWhere(c, Test(_)) ==
    LET sel == SelectSeq(fields(c), Test)
    IN  [i \in 1..Len(sel) |-> PyStr(sel[i].name)]

HasNoDefaultAtAll(field) == field.default = MISSING /\ field.default_factory = MISSING

C4_RequiredAsClaimed ==
    (IsSchema /\ ~IsRaise(last.out))
        => RequiredOf(last.out) = NamesWhere(last.cls, HasNoDefaultAtAll)

(***************************************************************************)
(* C4, amended.  `required` (of get_json_schema, which is the result of    *)
(* get_schema_required) lists exactly the fields that have no default      *)
(* value, in declaration order: a field with a default value is not        *)
(* listed, a field that has only a default factory is.                     *)
(***************************************************************************)
C4_RequiredNoDefaultValue ==
    (IsSchema /\ ~IsRaise(last.out)) =>
        LET req == RequiredOf(last.out)
            fs == fields(last.cls)
        IN  /\ req = get_schema_required(last.cls).l
            /\ \A i \in 1..Len(fs) :
                    (\E j \in 1..Len(req) : req[j] = PyStr(fs[i].name))
                        <=> fs[i].default = MISSING
            /\ \A j1, j2 \in 1..Len(req) :
                    j1 < j2 =>
                        \E i1, i2 \in 1..Len(fs) :
                            /\ i1 < i2
                            /\ req[j1] = PyStr(fs[i1].name)
                            /\ req[j2] = PyStr(fs[i2].name)

C4_Witness ==
    /\ IsSchema
    /\ last.cls = "NestedDto"
    /\ RequiredOf(last.out) = <<PyStr("my_list"), PyStr("my_dict")>>

(***************************************************************************)
(* C5.  In the derived schema a field declared List[R], R a mapped record  *)
(* type, is {type: array, items: {type: object, properties: R's            *)
(* properties}} with no nested `required`; a field declared Dict[_, R] is  *)
(* {type: object, additionalProperties: {type: object, properties: R's     *)
(* properties, required: R's required list}}.                              *)
(***************************************************************************)
C5_NestedSchemaShapes ==
    (IsSchema /\ ~IsRaise(last.out)) =>
        \A i \in 1..Len(fields(last.cls)) :
            LET fd == fields(last.cls)[i]
                prop == last.out.d["properties"].d[fd.name]
            IN  /\ (fd.type.k = "List" /\ fd.type.args[1].k = "dto") =>
                        /\ DOMAIN prop.d = {"type", "items"}
                        /\ prop.d["type"] = PyStr("array")
                        /\ DOMAIN prop.d["items"].d = {"type", "properties"}
                        /\ prop.d["items"].d["type"] = PyStr("object")
                        /\ prop.d["items"].d["properties"]
                                = get_schema_properties(fd.type.args[1].cls)
                /\ (fd.type.k = "Dict" /\ fd.type.args[2].k = "dto") =>
                        /\ DOMAIN prop.d = {"type", "additionalProperties"}
                        /\ prop.d["type"] = PyStr("object")
                        /\ DOMAIN prop.d["additionalProperties"].d
                                = {"type", "properties", "required"}
                        /\ prop.d["additionalProperties"].d["type"] = PyStr("object")
                        /\ prop.d["additionalProperties"].d["properties"]
                                = get_schema_properties(fd.type.args[2].cls)
                        /\ prop.d["additionalProperties"].d["required"]
                                = get_schema_required(fd.type.args[2].cls)

C5_Witness ==
    /\ IsSchema
    /\ last.cls = "NestedDto"
    /\ ~IsRaise(last.out)
    /\ "required" \notin DOMAIN last.out.d["properties"].d["my_list"].d["items"].d
    /\ "required" \in DOMAIN last.out.d["properties"].d["my_dict"].d["additionalProperties"].d

(***************************************************************************)
(* C6.  In the derived properties a field declared directly as a           *)
(* timestamp or an enumeration is {type: string}, and a field declared     *)
(* directly as a mapped record type is {type: object, properties: the      *)
(* nested type's properties}.                                              *)
(***************************************************************************)
C6_DirectFieldSchemas ==
    (IsSchema /\ ~IsRaise(last.out)) =>
        \A i \in 1..Len(fields(last.cls)) :
            LET fd == fields(last.cls)[i]
                prop == last.out.d["properties"].d[fd.name]
            IN  /\ fd.type.k \in {"datetime", "enum"} => prop = SchemaType("string")
                /\ fd.type.k = "dto" =>
                        prop = PyDict([type |-> PyStr("object"),
                                       properties |-> get_schema_properties(fd.type.cls)])

(***************************************************************************)
(* C7.  Timestamp resilience: when the payload of from_json holds, for a   *)
(* timestamp field, an empty or malformed string, from_json does not       *)
(* raise, the field is None and every other field of the payload has its   *)
(* deserialized value; a timestamp that is already a datetime is kept.     *)
(***************************************************************************)
Malformed(value) == value.k = "str" /\ (value.s = "" \/ IsRaise(strptime(value.s)))

\* the payload is complete and sound but for its timestamps
ResiliencePayload(c, payload) ==
    /\ payload.k = "dict"
    /\ \E i \in 1..Len(fields(c)) :
            /\ fields(c)[i].type = t_datetime
            /\ fields(c)[i].name \in DOMAIN payload.d
            /\ Malformed(payload.d[fields(c)[i].name])
                    \/ payload.d[fields(c)[i].name].k = "datetime"
    /\ \A i \in 1..Len(fields(c)) :
            LET fd == fields(c)[i]
            IN  /\ fd.name \in DOMAIN payload.d
                /\ fd.type = t_datetime =>
                        Malformed(payload.d[fd.name]) \/ payload.d[fd.name].k = "datetime"
                /\ fd.type # t_datetime =>
                        ~IsRaise(deserialize(fd.type, payload.d[fd.name], classDict).out)

C7_TimestampResilience ==
    (IsFromJson /\ ResiliencePayload(last.cls, last.arg)) =>
        /\ last.out.k = "obj"
        /\ \A i \in 1..Len(fields(last.cls)) :
                LET fd == fields(last.cls)[i]
                    given == last.arg.d[fd.name]
                IN  last.out.f[fd.name] =
                        IF fd.type # t_datetime
                        THEN deserialize(fd.type, given, classDict).out
                        ELSE IF given.k = "datetime" THEN given ELSE None_

(***************************************************************************)
(* C8.  Unsupported-type error: for a class with a field whose declared    *)
(* type is not a supported one, to_json of an instance and the derivation  *)
(* of the schema each fail with an error.                                  *)
(***************************************************************************)
HasUnsupportedField(c) ==
    \E i \in 1..Len(fields(c)) : ~SupportedType(fields(c)[i].type)

C8_UnsupportedTypeError ==
    ((IsToJson \/ IsSchema) /\ HasUnsupportedField(last.cls)) => IsRaise(last.out)

(***************************************************************************)
(* C9.  Type-descriptor cache: whatever calls came before, get_type_hints  *)
(* on a class returns that class's own field-name -> type mapping, the     *)
(* inherited fields and the fields it declares itself.                     *)
(***************************************************************************)
C9_HintsAreOwnDescriptor ==
    last.op = "get_type_hints" => last.hints = Descriptor(last.cls)

(***************************************************************************)
(* C10.  Concurrent first-time resolution: threads calling get_type_hints  *)
(* on one class, the cache empty at first: every call that has returned    *)
(* returned the complete descriptor of the class, and whenever the cache   *)
(* holds an entry for the class it is that descriptor.                     *)
(***************************************************************************)
C10_ConcurrentResolution ==
    /\ \A t \in Threads : pc[t] = "done" => returned[t] = Descriptor(target)
    /\ \A c \in Classes :
            \A n \in DOMAIN classDict[c] :
                c = target /\ n = hints_field(target) /\ classDict[c][n] = Descriptor(target)
    /\ (\E t \in Threads : pc[t] = "done")
            => getattr_cls(classDict, target, hints_field(target)).found

\* two threads both found the cache empty, both computed and stored, and
\* both have returned
C10_Witness ==
    \E t1, t2 \in Threads :
        /\ t1 # t2
        /\ pc[t1] = "done" /\ pc[t2] = "done"
        /\ computed[t1] # <<>> /\ computed[t2] # <<>>
        /\ target = "api.EventDto"

====
